---- MODULE Spec2Model ----
(***************************************************************************)
(* Model of the waveform visualizer: the audio manager (createAudioManager, *)
(* computeBands, computeRms) and the scatter-ring visualizer               *)
(* (createVisualizer: start/stop/loop, drawFrame, drawGlow,                *)
(* drawScatterRing and the configuration setters).                         *)
(*                                                                         *)
(* Numbers.  JavaScript numbers are IEEE doubles.  Quantities the code     *)
(* eases from frame to frame (audioPresence, lineAmplitude, the glow       *)
(* radius, the idle time) are modelled in fixed point: the integer v       *)
(* stands for v / Scale, and every product is rounded to the nearest step  *)
(* (Mul), as each floating-point product is rounded.  Comparisons against  *)
(* thresholds and the band/mean-square sums are done exactly on integers.  *)
(***************************************************************************)
EXTENDS Integers, Sequences, FiniteSets, TLC

\* ---------------------------------------------------------------- bounds
\* Resolution of the fixed-point numbers: Scale = 2 * HalfScale steps per unit
\* (even, so that 0.5 is a step, as it is a double).
HalfScale == 500
Scale == 2 * HalfScale

\* Longest spectrum and largest bandCount handed to computeBands.
MaxSpectrumLen == 4
MaxBandCount == 5
\* Longest waveform handed to computeRms.
MaxWaveLen == 4

\* ------------------------------------------------------------ arithmetic
Abs(x) == IF x < 0 THEN -x ELSE x

Max2(a, b) == IF a >= b THEN a ELSE b

Min2(a, b) == IF a <= b THEN a ELSE b

\* x / d rounded to the nearest integer (halves upward); d > 0.
RoundDiv(x, d) == (x + (d \div 2)) \div d

\* The fixed-point value of the decimal literal n / d.
Fx(n, d) == RoundDiv(n * Scale, d)

\* The rounded product of two fixed-point numbers.
Mul(a, b) == RoundDiv(a * b, Scale)

\* A clamp that lets every value through.
clampNothing(v, min, max) == v

\* Math.max(min, Math.min(max, v))
clamp(v, min, max) == Max2(min, Min2(max, v))

\* The non-finite doubles.  Every finite quantity of the model is far below
\* these three codes in magnitude, so a code never collides with a value.
Infinity == 2000000000

NegInfinity == -Infinity

NaN == 2000000001

\* Number.isFinite
IsFinite(x) == Abs(x) < Infinity

\* a * b as IEEE 754 has it: NaN absorbs, 0 * Infinity is NaN, and an infinite
\* product takes the sign of its factors.
Times(a, b) ==
  IF IsFinite(a) /\ IsFinite(b) THEN Mul(a, b)
  ELSE IF a = NaN \/ b = NaN THEN NaN
  ELSE IF a = 0 \/ b = 0 THEN NaN
  ELSE IF (a > 0) = (b > 0) THEN Infinity
  ELSE NegInfinity

\* a + b as IEEE 754 has it: NaN absorbs, Infinity + -Infinity is NaN.
Plus(a, b) ==
  IF IsFinite(a) /\ IsFinite(b) THEN a + b
  ELSE IF a = NaN \/ b = NaN THEN NaN
  ELSE IF IsFinite(a) THEN b
  ELSE IF IsFinite(b) THEN a
  ELSE IF a = b THEN a
  ELSE NaN

\* -a
Negated(a) == IF a = NaN THEN NaN ELSE -a

\* a + (b - a) * t
lerp(a, b, t) == Plus(a, Times(Plus(b, Negated(a)), t))

\* floor(sqrt(x)) for 0 <= x <= hi * hi, by bisection on lo..hi.
RECURSIVE SqrtIn(_, _, _)
SqrtIn(x, lo, hi) ==
  IF lo >= hi THEN lo
  ELSE LET mid == (lo + hi + 1) \div 2
       IN IF mid * mid <= x THEN SqrtIn(x, mid, hi) ELSE SqrtIn(x, lo, mid - 1)

\* Math.sqrt of a fixed-point number in [0, 4].
Sqrt(v) == SqrtIn(v * Scale, 0, 2 * Scale)

\* Sum of arr[j] for the 0-based indices start <= j < end.
RECURSIVE SumRange(_, _, _)
SumRange(arr, start, end) ==
  IF start >= end THEN 0 ELSE arr[start + 1] + SumRange(arr, start + 1, end)

\* All sequences over S of length 0..n.
SeqsUpTo(S, n) == UNION {[1..k -> S] : k \in 0..n}

\* --------------------------------------------------------- computeBands
\* Math.floor(len / bandCount)
BandSize(len, count) == len \div count

\* const start = i * bandSize   (i is 0-based, as in the code)
BandStart(i, len, count) == i * BandSize(len, count)

\* A band that forgets the remainder: every band ends at start + bandSize.
BandEndNoRemainder(i, len, count) == BandStart(i, len, count) + BandSize(len, count)

\* const end = i === bandCount - 1 ? len : start + bandSize
BandEnd(i, len, count) ==
  IF i = count - 1 THEN len ELSE BandStart(i, len, count) + BandSize(len, count)

\* A member count used as it is, zero included.
BandDenominatorRaw(start, end) == end - start

\* (end - start || 1): a zero member count falls back to 1.
BandDenominator(start, end) == IF end - start = 0 THEN 1 ELSE end - start

\* bands[i] = sum / (end - start || 1), kept as the exact fraction num / den.
BandValue(arr, i, count) ==
  LET start == BandStart(i, Len(arr), count)
      end == BandEnd(i, Len(arr), count)
  IN [num |-> SumRange(arr, start, end), den |-> BandDenominator(start, end)]

\* computeBands(freqArray, bandCount): the sequence of the bandCount bands.
computeBands(arr, count) == [k \in 1..count |-> BandValue(arr, k - 1, count)]

\* ----------------------------------------------------------- computeRms
\* (timeArray[i] - 128): the numerator of v = (timeArray[i] - 128) / 128.
Centered(s) == s - 128

RECURSIVE SumSquares(_, _)
\* sumSquares * 128^2: the sum of (timeArray[i] - 128)^2 over the first n samples.
SumSquares(arr, n) ==
  IF n = 0 THEN 0 ELSE Centered(arr[n]) * Centered(arr[n]) + SumSquares(arr, n - 1)

\* A sum that centres the samples at 0 instead of 128.
MeanSquareUncentered(arr) ==
  [num |-> SumRange([k \in 1..Len(arr) |-> arr[k] * arr[k]], 0, Len(arr)),
   den |-> Len(arr) * 128 * 128]

\* sumSquares / len as the exact fraction num / den (den = 0: the 0 / 0 of an
\* empty array, NaN in the code).
MeanSquare(arr) == [num |-> SumSquares(arr, Len(arr)), den |-> Len(arr) * 128 * 128]

\* computeRms(timeArray) = Math.sqrt(sumSquares / len), in fixed point; "NaN"
\* for the empty array.
computeRms(arr) ==
  LET ms == MeanSquare(arr)
  IN IF ms.den = 0 THEN "NaN" ELSE Sqrt(RoundDiv(ms.num * Scale, ms.den))

\* ------------------------------------------------------------ more bounds
\* analyser.frequencyBinCount of the model's analyser; fftSize is twice that, as
\* in the Web Audio API (the code sets fftSize = 1024).
FrequencyBinCount == 2
fftSize == 2 * FrequencyBinCount

\* Media streams getUserMedia may hand out, and start() calls in flight at once.
MaxStreams == 2
MaxInFlight == 2

\* null, and the empty buffer: the analyser's buffers are never empty.
Null == <<>>

\* Byte buffers the analyser may fill (getByteFrequencyData).
FreqInputs ==
  {[k \in 1..FrequencyBinCount |-> 0],
   [k \in 1..FrequencyBinCount |-> 255],
   [k \in 1..FrequencyBinCount |-> IF k = 1 THEN 200 ELSE 10]}

\* A silent waveform (every sample 128).
QuietWave == [k \in 1..fftSize |-> 128]

\* A full-swing waveform alternating 0 and 255.
LoudWave == [k \in 1..fftSize |-> IF k % 2 = 1 THEN 0 ELSE 255]

\* A waveform stuck at the top of the range.
HighWave == [k \in 1..fftSize |-> 255]

\* Byte buffers the analyser may fill (getByteTimeDomainData).
TimeInputs == {QuietWave, LoudWave, HighWave}

VARIABLES
  \* computeBands under test: its arguments, its result, whether it has run
  freqArray, bandCount, bands, bandsDone,
  \* computeRms under test: its argument, its result, whether it has run
  timeArray, rms, rmsDone,
  \* createAudioManager's closure
  audioContext, analyser, source, mediaStream,
  \* the environment of the audio manager: whether navigator.mediaDevices
  \* offers getUserMedia, the state of every stream handed out, and the start()
  \* calls suspended at an await
  gumSupported, streams, awaitingResume, awaitingGum,
  \* the last value getFeatures() returned
  features,
  \* history: a start() call has returned normally since the last stop()
  startedSinceStop,
  \* createVisualizer's closure: the device class, the audio source, the loop
  \* flag and the five configuration scalars
  isMobile, audioSource, running,
  sensitivity, smoothing, idleSpeed, radialScatterMultiplier,
  tangentialScatterMultiplier,
  \* scatterState
  lineAmplitude, idleAnimationTime, audioPresence, smoothedGlowRadius,
  lastFrameTime,
  \* the environment of the visualizer: the longest edge of the canvas, the
  \* loop callbacks requested for the next display refresh, and those of the
  \* current refresh that have not run yet
  canvasEdge, rafQueue, frameCallbacks,
  \* history: drawFrame calls so far and in the current refresh, setter and
  \* resize events so far, and of the last drawFrame: hasAudioRaw, maxAmplitude
  \* and the configuration it read; the largest |sensitivity| * maxAmplitude *
  \* mobileSensitivityBoost of any drawFrame so far
  ticks, ticksThisRefresh, events, hasAudioRaw, maxAmplitude, usedConfig,
  amplitudeBound,
  \* history: the loudness the last drawFrame saw, and whether every drawFrame
  \* so far saw loudness 0 and no waveform
  lastLoudness, quietSoFar,
  \* main.js: the microphone button's flag
  micActive

audioVars ==
  <<audioContext, analyser, source, mediaStream, gumSupported, streams,
    awaitingResume, awaitingGum, features, startedSinceStop>>

visVars ==
  <<isMobile, audioSource, running, sensitivity, smoothing, idleSpeed,
    radialScatterMultiplier, tangentialScatterMultiplier, lineAmplitude,
    idleAnimationTime, audioPresence, smoothedGlowRadius, lastFrameTime,
    canvasEdge, rafQueue, frameCallbacks, ticks, ticksThisRefresh, events,
    hasAudioRaw, maxAmplitude, usedConfig, amplitudeBound, lastLoudness,
    quietSoFar>>

\* The history of what the frames heard.
heardVars == <<lastLoudness, quietSoFar>>

bandsVars == <<freqArray, bandCount, bands, bandsDone>>

rmsVars == <<timeArray, rms, rmsDone>>

\* ----------------------------------------------------- createAudioManager
\* The neutral sentinel getFeatures returns without an analyser.
NeutralFeatures == [freq |-> Null, time |-> Null, bands |-> Null, loudness |-> 0]

\* getFrequencyData(): null without an analyser, else the analyser's bytes.
getFrequencyData(an, data) == IF ~an THEN Null ELSE data

\* getTimeDomainData(): null without an analyser, else the analyser's bytes.
getTimeDomainData(an, data) == IF ~an THEN Null ELSE data

\* getFeatures(), given what the analyser would write into the two buffers.
getFeatures(an, freqData, timeData) ==
  LET freq == getFrequencyData(an, freqData)
      time == getTimeDomainData(an, timeData)
  IN IF freq = Null \/ time = Null
     THEN NeutralFeatures
     ELSE [freq |-> freq, time |-> time,
           bands |-> computeBands(freq, 5), loudness |-> computeRms(time)]

\* Number of streams getUserMedia has handed out so far.
Acquired == Cardinality({s \in 1..MaxStreams : streams[s] # "none"})

\* start(), up to its first await.
AudioStart ==
  /\ awaitingResume + awaitingGum < MaxInFlight
  /\ IF audioContext = "suspended"
     THEN \* await audioContext.resume()
          /\ awaitingResume' = awaitingResume + 1
          /\ UNCHANGED awaitingGum
     ELSE IF ~gumSupported
     THEN \* throw new Error("getUserMedia is not supported in this browser")
          UNCHANGED <<awaitingResume, awaitingGum>>
     ELSE \* await navigator.mediaDevices.getUserMedia(...)
          /\ awaitingGum' = awaitingGum + 1
          /\ UNCHANGED awaitingResume
  /\ UNCHANGED <<audioContext, analyser, source, mediaStream, gumSupported,
                 streams, features, startedSinceStop>>

\* audioContext.resume() settles and start() returns.  The context awaited is
\* running again unless stop() has closed it meanwhile.
ResumeResolve ==
  /\ awaitingResume > 0
  /\ awaitingResume' = awaitingResume - 1
  /\ audioContext' = IF audioContext = "suspended" THEN "running" ELSE audioContext
  /\ startedSinceStop' = TRUE
  /\ UNCHANGED <<analyser, source, mediaStream, gumSupported, streams,
                 awaitingGum, features>>

\* getUserMedia resolves with a fresh stream, and start() runs to its end.
GumResolve ==
  /\ awaitingGum > 0
  /\ Acquired < MaxStreams
  /\ awaitingGum' = awaitingGum - 1
  /\ mediaStream' = Acquired + 1
  /\ streams' = [streams EXCEPT ![Acquired + 1] = "live"]
  /\ audioContext' = "running"
  /\ source' = TRUE
  /\ analyser' = TRUE
  /\ startedSinceStop' = TRUE
  /\ UNCHANGED <<gumSupported, awaitingResume, features>>

\* audioContext.resume() rejects (the context was closed): start() throws.
ResumeReject ==
  /\ awaitingResume > 0
  /\ awaitingResume' = awaitingResume - 1
  /\ UNCHANGED <<audioContext, analyser, source, mediaStream, gumSupported,
                 streams, awaitingGum, features, startedSinceStop>>

\* getUserMedia rejects (permission denied, no device): start() throws.
GumReject ==
  /\ awaitingGum > 0
  /\ awaitingGum' = awaitingGum - 1
  /\ UNCHANGED <<audioContext, analyser, source, mediaStream, gumSupported,
                 streams, awaitingResume, features, startedSinceStop>>

\* A stop() that leaves the analyser connected.
AudioStopKeepingAnalyser ==
  /\ streams' = IF mediaStream # 0
                THEN [streams EXCEPT ![mediaStream] = "stopped"] ELSE streams
  /\ mediaStream' = 0
  /\ audioContext' = "null"
  /\ source' = FALSE
  /\ startedSinceStop' = FALSE
  /\ UNCHANGED <<analyser, gumSupported, awaitingResume, awaitingGum, features>>

\* stop()
AudioStop ==
  /\ streams' = IF mediaStream # 0
                THEN [streams EXCEPT ![mediaStream] = "stopped"] ELSE streams
  /\ mediaStream' = 0
  /\ audioContext' = "null"
  /\ analyser' = FALSE
  /\ source' = FALSE
  /\ startedSinceStop' = FALSE
  /\ UNCHANGED <<gumSupported, awaitingResume, awaitingGum, features>>

\* The browser suspends the running context (autoplay policy, an interruption).
ContextSuspend ==
  /\ audioContext = "running"
  /\ audioContext' = "suspended"
  /\ UNCHANGED <<analyser, source, mediaStream, gumSupported, streams,
                 awaitingResume, awaitingGum, features, startedSinceStop>>

\* A call of getFeatures(); the analyser, when there is one, fills the buffers.
GetFeaturesCall ==
  /\ \E f \in FreqInputs, t \in TimeInputs :
       features' = getFeatures(analyser, f, t)
  /\ UNCHANGED <<audioContext, analyser, source, mediaStream, gumSupported,
                 streams, awaitingResume, awaitingGum, startedSinceStop>>

\* ------------------------------------------------------- createVisualizer
\* lineAmplitude has one entry per segment (the code has 140, or 100 on mobile).
Segments == 2

\* drawFrame calls, setter and resize events, and pending loop callbacks the
\* model follows.
MaxTicks == 3
MaxEvents == 1
MaxPending == 2

\* Longest edges (CSS pixels) getBoundingClientRect may report.
CanvasEdges == {200 * Scale, 400 * Scale}

\* Milliseconds performance.now() may have moved since the last frame.
FrameDeltas == {-16, 16}

\* Values the setters may be called with.
SensitivityInputs == {-3 * Scale, Scale}
SmoothingInputs == {0, 30 * Scale}
IdleSpeedInputs == {-Scale}
RadialScatterInputs == {-Scale}
TangentialScatterInputs == {3 * Scale}

\* const visualizerDiameter = isMobile ? longestEdge * 0.4 : longestEdge * 0.25
VisualizerDiameter(m, longestEdge) ==
  IF m THEN Mul(longestEdge, Fx(4, 10)) ELSE Mul(longestEdge, Fx(25, 100))

\* const baseRadius = visualizerDiameter * 0.35
BaseRadius(m, longestEdge) == Mul(VisualizerDiameter(m, longestEdge), Fx(35, 100))

\* drawScatterRing(cx, cy, baseRadius * 1.25, features)
RingRadius(baseRadius) == Mul(baseRadius, Fx(125, 100))

\* const maxAmplitude = radius * 0.45
MaxAmplitude(radius) == Mul(radius, Fx(45, 100))

\* const animationSpeed = isMobile ? 1.5 : 1.0
AnimationSpeed(m) == IF m THEN Fx(15, 10) ELSE Fx(1, 1)

\* const deltaTime = (now - scatterState.lastFrameTime) / 1000
DeltaTime(now, last) == RoundDiv((now - last) * Scale, 1000)

\* drawGlow: the eased glow radius.
\*   maxGlow = radius * 1.3
\*   targetGlowRadius = radius + loudness * sensitivity * maxGlow
\*   smoothedGlowRadius = lerp(smoothedGlowRadius, targetGlowRadius, 0.06)
GlowRadius(smoothed, radius, loudness, sens) ==
  LET maxGlow == Mul(radius, Fx(13, 10))
      targetGlowRadius == radius + Mul(Mul(loudness, sens), maxGlow)
  IN lerp(smoothed, targetGlowRadius, Fx(6, 100))

\* const audioThreshold = isMobile ? 0.01 : 0.02
AudioThreshold(m) == IF m THEN Fx(1, 100) ELSE Fx(2, 100)

\* Math.abs(s / 255 - 0.5) > timeVariationThreshold, with the threshold
\* isMobile ? 0.03 : 0.05, decided exactly: |2s - 255| / 510 > percent / 100.
Varies(m, s) == Abs(2 * s - 255) * 100 > 510 * (IF m THEN 3 ELSE 5)

\* const hasAudioRaw = loudness > audioThreshold ||
\*   (time && timeLength > 0 && Array.from(time).some(...))
HasAudioRaw(m, loudness, time) ==
  \/ loudness > AudioThreshold(m)
  \/ /\ time # Null
     /\ Len(time) > 0
     /\ \E k \in 1..Len(time) : Varies(m, time[k])

\* An exit speed of zero: the presence never decays.
ExitSpeedZero(m) == 0

\* const enterSpeed = isMobile ? 0.15 : 0.08
EnterSpeed(m) == IF m THEN Fx(15, 100) ELSE Fx(8, 100)

\* const exitSpeed = isMobile ? 0.08 : 0.04
ExitSpeed(m) == IF m THEN Fx(8, 100) ELSE Fx(4, 100)

\* A presence that is added to instead of eased toward 1.
PresenceAccumulated(m, presence, hasAudio) ==
  IF hasAudio THEN presence + Mul(Scale, Fx(4, 10)) ELSE lerp(presence, 0, ExitSpeed(m))

\* const targetPresence = hasAudioRaw ? 1.0 : 0.0
\* const transitionSpeed = targetPresence > audioPresence ? enterSpeed : exitSpeed
\* audioPresence = lerp(audioPresence, targetPresence, transitionSpeed)
Presence(m, presence, hasAudio) ==
  LET targetPresence == IF hasAudio THEN Scale ELSE 0
      transitionSpeed ==
        IF targetPresence > presence THEN EnterSpeed(m) ELSE ExitSpeed(m)
  IN lerp(presence, targetPresence, transitionSpeed)

\* const normalizedSmoothing = clamp(smoothing / 3, 0, 1) * mobileSmoothingReduction
NormalizedSmoothing(m, smooth) ==
  Mul(clamp(RoundDiv(smooth, 3), 0, Scale), IF m THEN Fx(7, 10) ELSE Fx(1, 1))

\* const baseEase = lerp(0.3, 0.01, normalizedSmoothing)
\* const ease = clamp(baseEase + loudness * 0.15, 0.03, 0.35)
Ease(m, smooth, loudness) ==
  LET baseEase == lerp(Fx(3, 10), Fx(1, 100), NormalizedSmoothing(m, smooth))
  IN clamp(baseEase + Mul(loudness, Fx(15, 100)), Fx(3, 100), Fx(35, 100))

\* let sample = 0.5; if (time && timeLength > 0) {
\*   idx = Math.floor(t * timeLength) % timeLength; sample = time[idx] / 255 }
\* with t = i / segments (i is 0-based).
Sample(time, i) ==
  IF time # Null /\ Len(time) > 0
  THEN RoundDiv(time[(((i * Len(time)) \div Segments) % Len(time)) + 1] * Scale, 255)
  ELSE Fx(1, 2)

\* const mapped = (sample - 0.5) * 2
Mapped(sample) == (sample - Fx(1, 2)) * 2

\* const mobileSensitivityBoost = isMobile ? 1.3 : 1.0
MobileSensitivityBoost(m) == IF m THEN Fx(13, 10) ELSE Fx(1, 1)

\* const target = mapped * sensitivity * maxAmplitude * audioPresence
\*                * mobileSensitivityBoost
Target(m, mapped, sens, maxAmp, presence) ==
  Mul(Mul(Mul(Mul(mapped, sens), maxAmp), presence), MobileSensitivityBoost(m))

\* lineAmplitude[i] = lerp(lineAmplitude[i], target, ease)
LineAmplitude(m, amp, time, i, sens, maxAmp, presence, ease) ==
  lerp(amp, Target(m, Mapped(Sample(time, i)), sens, maxAmp, presence), ease)

\* The largest |target| a frame with this sensitivity and maxAmplitude can ask
\* for: |mapped| <= 1 and audioPresence <= 1.
AmplitudeLimit(m, sens, maxAmp) == Target(m, Scale, Abs(sens), maxAmp, Scale)

\* Dots per segment (dotCount).
DotCount == 2

\* hash01(x) in thousandths, rounded down, at the arguments the dots use, for
\* segment i (row i + 1) and dot d (column d + 1):
\* seed = hash01(i * 97.31 + d * 31.77)
SeedThousandths ==
  <<<<182, 330, 840, 126>>,
    <<937, 343, 545, 229>>,
    <<937, 780, 627, 338>>,
    <<250, 968, 16, 957>>>>

\* seed2 = hash01(i * 11.13 + d * 73.91)
Seed2Thousandths ==
  <<<<182, 990, 172, 130>>,
    <<656, 371, 656, 587>>,
    <<969, 465, 796, 17>>,
    <<922, 460, 537, 917>>>>

\* hash01(i * 137.5 + d * 23.7), the phase's
PhaseThousandths ==
  <<<<182, 408, 202, 330>>,
    <<400, 733, 618, 0>>,
    <<483, 562, 311, 976>>,
    <<537, 132, 833, 649>>>>

\* hash01(i * 67.3 + d * 41.9), the base speed's
SpeedThousandths ==
  <<<<182, 357, 308, 326>>,
    <<483, 17, 361, 934>>,
    <<807, 699, 427, 415>>,
    <<133, 732, 56, 55>>>>

\* hash01(i * 89.1 + d * 19.3), the idle amplitude's
AmplitudeThousandths ==
  <<<<182, 180, 332, 737>>,
    <<935, 200, 479, 486>>,
    <<653, 425, 445, 907>>,
    <<718, 333, 803, 631>>>>

\* hash01 at the argument a table stands for.
hash01(table, i, d) == Fx(table[i + 1][d + 1], 1000)

\* Math.PI
Pi == Fx(31416, 10000)

\* Math.sin on [0, Pi], by Bhaskara's approximation
\* 16 x (Pi - x) / (5 Pi^2 - 4 x (Pi - x)); its error is below 0.002.
SinHalfTurn(x) ==
  LET p == Mul(x, Pi - x)
  IN RoundDiv(16 * p * Scale, 5 * Mul(Pi, Pi) - 4 * p)

\* Math.sin
Sin(a) ==
  LET r == a % (2 * Pi)
  IN IF r <= Pi THEN SinHalfTurn(r) ELSE -SinHalfTurn(r - Pi)

\* mobileScatterBoost
MobileScatterBoost(m) == IF m THEN Fx(14, 10) ELSE Fx(1, 1)

\* amp01 = clamp(Math.abs(lineAmplitude[i]) / (maxAmplitude || 1), 0, 1)
Amp01(amp, maxAmp) ==
  clamp(RoundDiv(Abs(amp) * Scale, IF maxAmp = 0 THEN Scale ELSE maxAmp), 0, Scale)

\* radialScatterBase
RadialScatterBase(m, amp01, loudness) ==
  Mul(clamp(Fx(15, 10) + 8 * amp01 + 12 * loudness, Fx(15, 10), 15 * Scale),
      MobileScatterBoost(m))

\* tangentialScatterBase
TangentialScatterBase(m, amp01, loudness) ==
  Mul(clamp(2 * Scale + 10 * amp01 + 16 * loudness, 2 * Scale, 18 * Scale),
      MobileScatterBoost(m))

\* radialScatterAmount and tangentialScatterAmount: base * audioPresence *
\* multiplier, multiplied from the left.
ScatterAmount(base, presence, multiplier) ==
  Times(Times(base, presence), multiplier)

\* amplitude = 2.5 + hash01(i * 89.1 + d * 19.3) * 3.5
IdleAmplitude(i, d) ==
  Fx(25, 10) + Mul(hash01(AmplitudeThousandths, i, d), Fx(35, 10))

\* speed = baseSpeed * idleSpeed
IdleDotSpeed(m, i, d, idleSpd) ==
  LET lo == IF m THEN Fx(5, 10) ELSE Fx(3, 10)
      hi == IF m THEN Fx(1, 1) ELSE Fx(7, 10)
      baseSpeed == lo + Mul(hash01(SpeedThousandths, i, d), hi - lo)
  IN Mul(baseSpeed, idleSpd)

\* idleRadialOffset = Math.sin(idleAnimationTime * speed + phase) * amplitude
IdleRadialOffset(m, i, d, idleTime, idleSpd) ==
  LET phase == Mul(hash01(PhaseThousandths, i, d), 2 * Pi)
  IN Mul(Sin(Mul(idleTime, IdleDotSpeed(m, i, d, idleSpd)) + phase),
         IdleAmplitude(i, d))

\* audioRadialScatter = (seed2 - 0.5) * radialScatterAmount * 0.55
AudioRadialScatter(i, d, amount) ==
  Times(Times(hash01(Seed2Thousandths, i, d) - Fx(1, 2), amount), Fx(55, 100))

\* radialScatter = lerp(idleRadialOffset, audioRadialScatter, audioPresence)
RadialScatter(idle, audioRadial, presence) == lerp(idle, audioRadial, presence)

\* tangentialScatter = (seed - 0.5) * tangentialScatterAmount
TangentialScatter(i, d, amount) ==
  Times(hash01(SeedThousandths, i, d) - Fx(1, 2), amount)

\* The configuration as a frame reads it: smoothing only through
\* clamp(smoothing / 3, 0, 1), the other four scalars as they are.
ConfigRead ==
  [sensitivity |-> sensitivity,
   smoothing |-> clamp(RoundDiv(smoothing, 3), 0, Scale),
   idleSpeed |-> idleSpeed,
   radialScatterMultiplier |-> radialScatterMultiplier,
   tangentialScatterMultiplier |-> tangentialScatterMultiplier]

\* The dots as the last drawFrame placed them, from what that frame read and
\* left behind: idleRadialOffset of dot d of segment k,
idleRadialOffset ==
  [k \in 1..Segments |-> [d \in 1..DotCount |->
     IdleRadialOffset(isMobile, k - 1, d - 1, idleAnimationTime,
                      usedConfig.idleSpeed)]]

\* its radialScatter,
radialScatter ==
  [k \in 1..Segments |-> [d \in 1..DotCount |->
     LET amp01 == Amp01(lineAmplitude[k], maxAmplitude)
         amount == ScatterAmount(RadialScatterBase(isMobile, amp01, lastLoudness),
                                 audioPresence, usedConfig.radialScatterMultiplier)
     IN RadialScatter(idleRadialOffset[k][d],
                      AudioRadialScatter(k - 1, d - 1, amount), audioPresence)]]

\* and its tangentialScatter.
tangentialScatter ==
  [k \in 1..Segments |-> [d \in 1..DotCount |->
     LET amp01 == Amp01(lineAmplitude[k], maxAmplitude)
         amount == ScatterAmount(TangentialScatterBase(isMobile, amp01, lastLoudness),
                                 audioPresence, usedConfig.tangentialScatterMultiplier)
     IN TangentialScatter(k - 1, d - 1, amount)]]

\* No handler of the page runs while the callbacks of a refresh are running.
BetweenFrames == frameCallbacks = 0

setAudioSource ==
  /\ BetweenFrames
  /\ audioSource' = TRUE
  /\ UNCHANGED <<isMobile, running, sensitivity, smoothing, idleSpeed,
                 radialScatterMultiplier, tangentialScatterMultiplier,
                 lineAmplitude, idleAnimationTime, audioPresence,
                 smoothedGlowRadius, lastFrameTime, canvasEdge, rafQueue,
                 frameCallbacks, ticks, ticksThisRefresh, events, hasAudioRaw,
                 maxAmplitude, usedConfig, amplitudeBound, heardVars>>

\* What every setter and the resize event leave alone.
ConfigFrame ==
  /\ BetweenFrames
  /\ events < MaxEvents
  /\ events' = events + 1
  /\ UNCHANGED <<isMobile, audioSource, running, lineAmplitude,
                 idleAnimationTime, audioPresence, smoothedGlowRadius,
                 lastFrameTime, rafQueue, frameCallbacks, ticks,
                 ticksThisRefresh, hasAudioRaw, maxAmplitude, usedConfig,
                 amplitudeBound, heardVars>>

setSensitivity ==
  /\ ConfigFrame
  /\ \E value \in SensitivityInputs : sensitivity' = value
  /\ UNCHANGED <<smoothing, idleSpeed, radialScatterMultiplier,
                 tangentialScatterMultiplier, canvasEdge>>

setSmoothing ==
  /\ ConfigFrame
  /\ \E value \in SmoothingInputs : smoothing' = value
  /\ UNCHANGED <<sensitivity, idleSpeed, radialScatterMultiplier,
                 tangentialScatterMultiplier, canvasEdge>>

setIdleSpeed ==
  /\ ConfigFrame
  /\ \E value \in IdleSpeedInputs : idleSpeed' = value
  /\ UNCHANGED <<sensitivity, smoothing, radialScatterMultiplier,
                 tangentialScatterMultiplier, canvasEdge>>

\* setRadialScatter(value) for a value of Inputs
setRadialScatterOf(Inputs) ==
  /\ ConfigFrame
  /\ \E value \in Inputs : radialScatterMultiplier' = value
  /\ UNCHANGED <<sensitivity, smoothing, idleSpeed,
                 tangentialScatterMultiplier, canvasEdge>>

\* setRadialScatter called with any number, the non-finite ones included.
setRadialScatter == setRadialScatterOf(RadialScatterInputs \cup {Infinity})

\* setRadialScatter called by the slider's handler: parseFloat of a range
\* input's value is a finite number.
updateRadialScatterValue == setRadialScatterOf(RadialScatterInputs)

\* setTangentialScatter(value) for a value of Inputs
setTangentialScatterOf(Inputs) ==
  /\ ConfigFrame
  /\ \E value \in Inputs : tangentialScatterMultiplier' = value
  /\ UNCHANGED <<sensitivity, smoothing, idleSpeed, radialScatterMultiplier,
                 canvasEdge>>

\* setTangentialScatter called with any number, the non-finite ones included.
setTangentialScatter == setTangentialScatterOf(TangentialScatterInputs \cup {Infinity})

\* setTangentialScatter called by the slider's handler.
updateTangentialScatterValue == setTangentialScatterOf(TangentialScatterInputs)

\* The window is resized: getBoundingClientRect reports another size from now on.
Resize ==
  /\ ConfigFrame
  /\ \E edge \in CanvasEdges \ {canvasEdge} : canvasEdge' = edge
  /\ UNCHANGED <<sensitivity, smoothing, idleSpeed, radialScatterMultiplier,
                 tangentialScatterMultiplier>>

\* start(): running = true; requestAnimationFrame(loop)
VisualizerStart ==
  /\ BetweenFrames
  /\ rafQueue < MaxPending
  /\ running' = TRUE
  /\ rafQueue' = rafQueue + 1
  /\ UNCHANGED <<isMobile, audioSource, sensitivity, smoothing, idleSpeed,
                 radialScatterMultiplier, tangentialScatterMultiplier,
                 lineAmplitude, idleAnimationTime, audioPresence,
                 smoothedGlowRadius, lastFrameTime, canvasEdge, frameCallbacks,
                 ticks, ticksThisRefresh, events, hasAudioRaw, maxAmplitude,
                 usedConfig, amplitudeBound, heardVars>>

\* stop(): running = false
VisualizerStop ==
  /\ BetweenFrames
  /\ running' = FALSE
  /\ UNCHANGED <<isMobile, audioSource, sensitivity, smoothing, idleSpeed,
                 radialScatterMultiplier, tangentialScatterMultiplier,
                 lineAmplitude, idleAnimationTime, audioPresence,
                 smoothedGlowRadius, lastFrameTime, canvasEdge, rafQueue,
                 frameCallbacks, ticks, ticksThisRefresh, events, hasAudioRaw,
                 maxAmplitude, usedConfig, amplitudeBound, heardVars>>

\* A display refresh begins: the callbacks requested so far are the ones it runs.
BeginFrame ==
  /\ BetweenFrames
  /\ rafQueue > 0
  /\ frameCallbacks' = rafQueue
  /\ rafQueue' = 0
  /\ ticksThisRefresh' = 0
  /\ UNCHANGED <<isMobile, audioSource, running, sensitivity, smoothing,
                 idleSpeed, radialScatterMultiplier,
                 tangentialScatterMultiplier, lineAmplitude, idleAnimationTime,
                 audioPresence, smoothedGlowRadius, lastFrameTime, canvasEdge,
                 ticks, events, hasAudioRaw, maxAmplitude, usedConfig,
                 amplitudeBound, heardVars>>

\* drawFrame(), drawGlow and drawScatterRing included, at clock reading now and
\* with the analyser writing tdata into the time-domain buffer (Null: there is
\* no analyser).  The drawing calls change no state.
drawFrame(now, tdata) ==
  LET baseRadius == BaseRadius(isMobile, canvasEdge)
      feats == IF audioSource
               THEN getFeatures(tdata # Null, CHOOSE f \in FreqInputs : TRUE, tdata)
               ELSE NeutralFeatures
      loudness == feats.loudness
      time == feats.time
      deltaTime == DeltaTime(now, lastFrameTime)
      glow == IF smoothedGlowRadius = 0 THEN baseRadius ELSE smoothedGlowRadius
      maxAmp == MaxAmplitude(RingRadius(baseRadius))
      hasAudio == HasAudioRaw(isMobile, loudness, time)
      presence == Presence(isMobile, audioPresence, hasAudio)
      ease == Ease(isMobile, smoothing, loudness)
  IN /\ lastFrameTime' = now
     /\ idleAnimationTime' = idleAnimationTime + Mul(deltaTime, AnimationSpeed(isMobile))
     /\ smoothedGlowRadius' = GlowRadius(glow, baseRadius, loudness, sensitivity)
     /\ audioPresence' = presence
     /\ lineAmplitude' =
          [k \in 1..Segments |->
             LineAmplitude(isMobile, lineAmplitude[k], time, k - 1, sensitivity,
                           maxAmp, presence, ease)]
     /\ hasAudioRaw' = hasAudio
     /\ maxAmplitude' = maxAmp
     /\ usedConfig' = ConfigRead
     /\ amplitudeBound' =
          Max2(amplitudeBound, AmplitudeLimit(isMobile, sensitivity, maxAmp))
     /\ lastLoudness' = loudness
     /\ quietSoFar' = (quietSoFar /\ loudness = 0 /\ time = Null)

\* loop(): if (!running) return; drawFrame(); requestAnimationFrame(loop),
\* with performance.now() having moved by one of Deltas since the last frame.
loopWith(Deltas) ==
  /\ frameCallbacks > 0
  /\ frameCallbacks' = frameCallbacks - 1
  /\ IF ~running
     THEN UNCHANGED <<lineAmplitude, idleAnimationTime, audioPresence,
                      smoothedGlowRadius, lastFrameTime, rafQueue, ticks,
                      ticksThisRefresh, hasAudioRaw, maxAmplitude, usedConfig,
                      amplitudeBound, heardVars>>
     ELSE /\ ticks < MaxTicks
          /\ \E d \in Deltas, tdata \in TimeInputs \cup {Null} :
               drawFrame(lastFrameTime + d, tdata)
          /\ rafQueue' = rafQueue + 1
          /\ ticks' = ticks + 1
          /\ ticksThisRefresh' = ticksThisRefresh + 1
  /\ UNCHANGED <<isMobile, audioSource, running, sensitivity, smoothing,
                 idleSpeed, radialScatterMultiplier,
                 tangentialScatterMultiplier, canvasEdge, events>>

\* loop() under a clock that may also run backwards.
loop == loopWith(FrameDeltas)

\* loop() under the monotonic clock performance.now() is specified to be.
loopMonotonic == loopWith({d \in FrameDeltas : d >= 0})

\* ------------------------------------------------------- initial states
\* The audio manager as createAudioManager() returns it.
AudioInit ==
  /\ audioContext = "null"
  /\ analyser = FALSE
  /\ source = FALSE
  /\ mediaStream = 0
  /\ streams = [s \in 1..MaxStreams |-> "none"]
  /\ awaitingResume = 0
  /\ awaitingGum = 0
  /\ features = NeutralFeatures
  /\ startedSinceStop = FALSE

\* The visualizer as createVisualizer(canvas) returns it.
VisualizerInit ==
  /\ audioSource = FALSE
  /\ running = FALSE
  /\ sensitivity = Fx(72, 10)
  /\ smoothing = Fx(14, 10)
  /\ idleSpeed = 5 * Scale
  /\ radialScatterMultiplier = Scale
  /\ tangentialScatterMultiplier = Fx(4, 10)
  /\ lineAmplitude = [k \in 1..Segments |-> 0]
  /\ idleAnimationTime = 0
  /\ audioPresence = 0
  /\ smoothedGlowRadius = 0
  /\ lastFrameTime = 1000
  /\ rafQueue = 0
  /\ frameCallbacks = 0
  /\ ticks = 0
  /\ ticksThisRefresh = 0
  /\ events = 0
  /\ hasAudioRaw = FALSE
  /\ maxAmplitude = 0
  /\ usedConfig = ConfigRead
  /\ amplitudeBound = 0
  /\ lastLoudness = 0
  /\ quietSoFar = TRUE

\* Nothing handed to computeBands or computeRms yet.
BandsIdle == freqArray = <<>> /\ bandCount = 1 /\ bands = <<>> /\ bandsDone = FALSE

RmsIdle == timeArray = <<>> /\ rms = 0 /\ rmsDone = FALSE

\* ------------------------------------------------ the visualizer's runs
\* A step of the visualizer leaves the audio manager and the functions alone.
VisualizerOnly == UNCHANGED <<audioVars, bandsVars, rmsVars, micActive>>

\* A step of the audio manager leaves the visualizer and the functions alone.
AudioOnly == UNCHANGED <<visVars, bandsVars, rmsVars, micActive>>

\* let micActive = false
MicInit == micActive = FALSE

Init ==
  /\ isMobile \in BOOLEAN
  /\ canvasEdge \in CanvasEdges
  /\ gumSupported = TRUE
  /\ VisualizerInit
  /\ AudioInit
  /\ MicInit
  /\ BandsIdle
  /\ RmsIdle

Next ==
  \/ VisualizerStart /\ VisualizerOnly
  \/ VisualizerStop /\ VisualizerOnly
  \/ BeginFrame /\ VisualizerOnly
  \/ loop /\ VisualizerOnly
  \/ setAudioSource /\ VisualizerOnly
  \/ setSensitivity /\ VisualizerOnly
  \/ setSmoothing /\ VisualizerOnly
  \/ setIdleSpeed /\ VisualizerOnly
  \/ setRadialScatter /\ VisualizerOnly
  \/ setTangentialScatter /\ VisualizerOnly
  \/ Resize /\ VisualizerOnly

vars == <<audioVars, visVars, bandsVars, rmsVars, micActive>>

Spec == Init /\ [][Next]_vars

\* ---------------------------------------------- the page's visualizer
\* The visualizer as main.js drives it: start() is called once as the page
\* loads and stop() never; the sliders call the setters, the microphone button
\* attaches the audio source, the window may be resized, and the clock is
\* performance.now().
PageInit ==
  /\ isMobile \in BOOLEAN
  /\ canvasEdge \in CanvasEdges
  /\ gumSupported = TRUE
  /\ VisualizerInit
  /\ AudioInit
  /\ MicInit
  /\ BandsIdle
  /\ RmsIdle

PageNext ==
  \/ VisualizerStart /\ ~running /\ VisualizerOnly
  \/ BeginFrame /\ VisualizerOnly
  \/ loopMonotonic /\ VisualizerOnly
  \/ setAudioSource /\ VisualizerOnly
  \/ setSensitivity /\ VisualizerOnly
  \/ setSmoothing /\ VisualizerOnly
  \/ setIdleSpeed /\ VisualizerOnly
  \/ updateRadialScatterValue /\ VisualizerOnly
  \/ updateTangentialScatterValue /\ VisualizerOnly
  \/ Resize /\ VisualizerOnly

SpecPage == PageInit /\ [][PageNext]_vars

\* ------------------------------------------------ the audio manager's runs
\* The visualizer plays no part in the runs below: it stays as constructed.
VisualizerIdle == isMobile = FALSE /\ canvasEdge = 400 * Scale /\ VisualizerInit

AudioSpecInit ==
  /\ gumSupported \in BOOLEAN
  /\ AudioInit
  /\ MicInit
  /\ VisualizerIdle
  /\ BandsIdle
  /\ RmsIdle

AudioNext ==
  \/ AudioStart /\ AudioOnly
  \/ ResumeResolve /\ AudioOnly
  \/ ResumeReject /\ AudioOnly
  \/ GumResolve /\ AudioOnly
  \/ GumReject /\ AudioOnly
  \/ AudioStop /\ AudioOnly
  \/ ContextSuspend /\ AudioOnly
  \/ GetFeaturesCall /\ AudioOnly

SpecAudio == AudioSpecInit /\ [][AudioNext]_vars

\* ------------------------------------------------ the microphone button
\* A handler of the button leaves the functions under test alone.
MicOnly == UNCHANGED <<bandsVars, rmsVars>>

\* A click while micActive is false: startMic() runs to its await of
\* audio.start(), which runs to its own first await or throws.
ClickStartMic ==
  /\ ~micActive
  /\ AudioStart
  /\ UNCHANGED <<micActive, visVars>>
  /\ MicOnly

\* A click while micActive is true: stopMic()
ClickStopMic ==
  /\ micActive
  /\ AudioStop
  /\ micActive' = FALSE
  /\ UNCHANGED visVars
  /\ MicOnly

\* getUserMedia resolves: audio.start() runs to its end and startMic() after
\* it, in the same turn of the event loop.
StartMicResolve ==
  /\ GumResolve
  /\ micActive' = TRUE
  /\ setAudioSource
  /\ MicOnly

\* getUserMedia rejects: startMic() catches the error and reports it.
StartMicReject ==
  /\ GumReject
  /\ UNCHANGED <<micActive, visVars>>
  /\ MicOnly

\* A frame of the visualizer asks the attached audio source for its features.
FrameGetFeatures ==
  /\ audioSource
  /\ GetFeaturesCall
  /\ UNCHANGED <<micActive, visVars>>
  /\ MicOnly

MicSpecInit ==
  /\ gumSupported \in BOOLEAN
  /\ AudioInit
  /\ MicInit
  /\ VisualizerIdle
  /\ BandsIdle
  /\ RmsIdle

MicNext ==
  \/ ClickStartMic
  \/ ClickStopMic
  \/ StartMicResolve
  \/ StartMicReject
  \/ FrameGetFeatures

SpecMic == MicSpecInit /\ [][MicNext]_vars

\* ------------------------------------------------------ computeBands' runs
\* Magnitudes a spectrum may hold.
FreqSamples == {0, 1, 255}

BandsInit ==
  /\ freqArray \in SeqsUpTo(FreqSamples, MaxSpectrumLen)
  /\ bandCount \in 1..MaxBandCount
  /\ bands = <<>>
  /\ bandsDone = FALSE
  /\ gumSupported = TRUE
  /\ AudioInit
  /\ MicInit
  /\ VisualizerIdle
  /\ RmsIdle

\* One call computeBands(freqArray, bandCount).
ComputeBandsCall ==
  /\ ~bandsDone
  /\ bands' = computeBands(freqArray, bandCount)
  /\ bandsDone' = TRUE
  /\ UNCHANGED <<freqArray, bandCount, audioVars, visVars, rmsVars, micActive>>

SpecBands == BandsInit /\ [][ComputeBandsCall]_vars

\* -------------------------------------------------------- computeRms' runs
\* Samples a waveform may hold.
WaveSamples == {0, 128, 255}

RmsInit ==
  /\ timeArray \in SeqsUpTo(WaveSamples, MaxWaveLen)
  /\ rms = 0
  /\ rmsDone = FALSE
  /\ gumSupported = TRUE
  /\ AudioInit
  /\ MicInit
  /\ VisualizerIdle
  /\ BandsIdle

\* One call computeRms(timeArray).
ComputeRmsCall ==
  /\ ~rmsDone
  /\ rms' = computeRms(timeArray)
  /\ rmsDone' = TRUE
  /\ UNCHANGED <<timeArray, audioVars, visVars, bandsVars, micActive>>

SpecRms == RmsInit /\ [][ComputeRmsCall]_vars

\* ================================================================ claims

\* The 0-based indices of the bands whose range [start, end) holds idx.
BandsHolding(idx) ==
  {i \in 0..(bandCount - 1) :
     /\ BandStart(i, Len(freqArray), bandCount) <= idx
     /\ idx < BandEnd(i, Len(freqArray), bandCount)}

\* C1 (as claimed): after any drawFrame, every smoothed amplitude is within the
\* maxAmplitude of that frame: |lineAmplitude[i]| <= maxAmplitude.
C1_AmplitudeWithinMaxAmplitude ==
  ticks > 0 => \A k \in 1..Segments : Abs(lineAmplitude[k]) <= maxAmplitude

\* C1 (amended): every smoothed amplitude is within the largest
\* |sensitivity| * maxAmplitude * mobileSensitivityBoost of the frames drawn so
\* far, under any waveforms, sensitivities and canvas sizes.
C1_AmplitudeWithinSensitivityBound ==
  \A k \in 1..Segments : Abs(lineAmplitude[k]) <= amplitudeBound

\* C1 witness: a frame has left an amplitude above its maxAmplitude, inside the
\* sensitivity bound.
C1_Witness ==
  /\ ticks > 0
  /\ \E k \in 1..Segments :
       /\ Abs(lineAmplitude[k]) > maxAmplitude
       /\ Abs(lineAmplitude[k]) <= amplitudeBound

\* C2: audioPresence is 0 before the first frame and within [0, 1] always.
C2_PresenceInUnitInterval ==
  /\ 0 <= audioPresence
  /\ audioPresence <= Scale
  /\ ticks = 0 => audioPresence = 0

\* C2 witness: frames with audio and a frame without have been drawn, and the
\* presence is strictly inside (0, 1).
C2_Witness ==
  /\ ticks >= 3
  /\ ~hasAudioRaw
  /\ 0 < audioPresence
  /\ audioPresence < Scale

\* C3: computeBands returns bandCount values, every index of the spectrum lies
\* in the range of exactly one band, the last band ends at the spectrum's end,
\* and each band's sum is the sum over its range, so that the sums add up to
\* the sum of the whole spectrum.
C3_BandsPartitionSpectrum ==
  bandsDone =>
    /\ Len(bands) = bandCount
    /\ \A idx \in 0..(Len(freqArray) - 1) : Cardinality(BandsHolding(idx)) = 1
    /\ BandEnd(bandCount - 1, Len(freqArray), bandCount) = Len(freqArray)
    /\ \A i \in 0..(bandCount - 1) :
         bands[i + 1].num =
           SumRange(freqArray, BandStart(i, Len(freqArray), bandCount),
                    BandEnd(i, Len(freqArray), bandCount))
    /\ SumRange([k \in 1..bandCount |-> bands[k].num], 0, bandCount)
         = SumRange(freqArray, 0, Len(freqArray))

\* C3 witness: a spectrum whose length is no multiple of bandCount has been
\* banded, and the last band took the remainder.
C3_Witness ==
  /\ bandsDone
  /\ Len(freqArray) = 4
  /\ bandCount = 3
  /\ bands[3].den = 2

\* C4 (as claimed): with bandCount above the spectrum's length, every band is 0.
C4_AllBandsZero ==
  (bandsDone /\ bandCount > Len(freqArray)) =>
    \A k \in 1..bandCount : bands[k].num = 0

\* C4 (amended): with bandCount above the spectrum's length no band divides by
\* zero, every band but the last is empty and has value 0, and the last band is
\* the mean of the whole spectrum (0 only when the spectrum is empty or all 0).
C4_EmptyBandsZeroLastBandMean ==
  (bandsDone /\ bandCount > Len(freqArray)) =>
    /\ \A k \in 1..bandCount : bands[k].den >= 1
    /\ \A k \in 1..(bandCount - 1) : bands[k].num = 0 /\ bands[k].den = 1
    /\ bands[bandCount].num = SumRange(freqArray, 0, Len(freqArray))
    /\ bands[bandCount].den = Max2(1, Len(freqArray))

\* C4 witness: more bands than samples, and the last band is not 0.
C4_Witness ==
  /\ bandsDone
  /\ bandCount > Len(freqArray)
  /\ bands[bandCount].num > 0

\* C5: with whatever the analyser would deliver, getFeatures returns the
\* neutral sentinel unless a start() has returned since the last stop(); any
\* other result has 5 bands and a loudness in [0, 1].
C5_NeutralUnlessStarted ==
  \A f \in FreqInputs, t \in TimeInputs :
    LET r == getFeatures(analyser, f, t)
    IN /\ ~startedSinceStop => r = NeutralFeatures
       /\ r # NeutralFeatures =>
            /\ startedSinceStop
            /\ Len(r.bands) = 5
            /\ 0 <= r.loudness
            /\ r.loudness <= Scale

\* C5 witness: getFeatures has returned computed features, and a stop() since
\* then has left the extractor inactive.
C5_Witness ==
  /\ features # NeutralFeatures
  /\ Len(features.bands) = 5
  /\ ~startedSinceStop
  /\ ~analyser
  /\ \E s \in 1..MaxStreams : streams[s] = "stopped"

\* C6 (as claimed): the configuration a frame reads is within its valid range
\* (the ranges the code's comments give: smoothing 0..3, here normalized to
\* 0..1, idleSpeed 0..5, the scatter multipliers 0..2, sensitivity >= 0).
C6_ConfigReadIsValid ==
  ticks > 0 =>
    /\ usedConfig.sensitivity >= 0
    /\ usedConfig.smoothing >= 0
    /\ usedConfig.smoothing <= Scale
    /\ usedConfig.idleSpeed >= 0
    /\ usedConfig.idleSpeed <= 5 * Scale
    /\ usedConfig.radialScatterMultiplier >= 0
    /\ usedConfig.radialScatterMultiplier <= 2 * Scale
    /\ usedConfig.tangentialScatterMultiplier >= 0
    /\ usedConfig.tangentialScatterMultiplier <= 2 * Scale

C8_OneTickPerRefresh ==
  /\ rafQueue + frameCallbacks <= 1
  /\ ticksThisRefresh <= 1

\* C9: for a non-empty waveform the mean square and the result lie in [0, 1];
\* an all-128 waveform gives 0; an alternating 0/255 waveform of even length
\* has mean square (128^2 + 127^2) / (2 * 128^2) and a result close to 1.
C9_RmsOfWaveform ==
  (rmsDone /\ Len(timeArray) > 0) =>
    LET ms == MeanSquare(timeArray)
        alternating ==
          /\ Len(timeArray) % 2 = 0
          /\ timeArray[1] \in {0, 255}
          /\ \A k \in 1..Len(timeArray) :
               timeArray[k] = IF k % 2 = 1 THEN timeArray[1] ELSE 255 - timeArray[1]
    IN /\ 0 <= ms.num
       /\ ms.num <= ms.den
       /\ 0 <= rms
       /\ rms <= Scale
       /\ (\A k \in 1..Len(timeArray) : timeArray[k] = 128) => rms = 0
       /\ alternating =>
            /\ 2 * ms.num = (128 * 128 + 127 * 127) * Len(timeArray)
            /\ rms >= Fx(99, 100)

\* C9 witness: the alternating waveform 0, 255, 0, 255 has been measured.
C9_Witness ==
  /\ rmsDone
  /\ timeArray = <<0, 255, 0, 255>>
  /\ rms >= Fx(99, 100)
  /\ rms <= Scale

DotsIdle ==
  \A k \in 1..Segments, d \in 1..DotCount :
    /\ radialScatter[k][d] = idleRadialOffset[k][d]
    /\ Abs(idleRadialOffset[k][d]) <= IdleAmplitude(k - 1, d - 1)
    /\ IdleAmplitude(k - 1, d - 1) >= Fx(25, 10)
    /\ IdleAmplitude(k - 1, d - 1) <= 6 * Scale
    /\ tangentialScatter[k][d] = 0

\* C11 (as claimed): while every frame since construction had loudness 0 and no
\* waveform, audioPresence is 0, lineAmplitude is 0 and every dot follows pure
\* idle oscillation, whatever the scatter multipliers and the sensitivity are.
C11_IdleOscillationOnly ==
  (ticks > 0 /\ quietSoFar) =>
    /\ audioPresence = 0
    /\ \A k \in 1..Segments : lineAmplitude[k] = 0
    /\ DotsIdle

\* C11, for finite scatter multipliers: while every frame since construction
\* had loudness 0 and no waveform and the last frame read finite scatter
\* multipliers, audioPresence is 0, lineAmplitude is 0 and every dot follows
\* pure idle oscillation.
C11_IdleOscillationFiniteMultipliers ==
  (/\ ticks > 0
   /\ quietSoFar
   /\ IsFinite(usedConfig.radialScatterMultiplier)
   /\ IsFinite(usedConfig.tangentialScatterMultiplier)) =>
    /\ audioPresence = 0
    /\ \A k \in 1..Segments : lineAmplitude[k] = 0
    /\ DotsIdle

\* C11's case: a second silent frame, drawn after a setter changed a scatter
\* multiplier or the sensitivity, with a dot off its axis position.
C11_Witness ==
  /\ ticks >= 2
  /\ quietSoFar
  /\ events > 0
  /\ \/ usedConfig.radialScatterMultiplier # Scale
     \/ usedConfig.tangentialScatterMultiplier # Fx(4, 10)
     \/ usedConfig.sensitivity # Fx(72, 10)
  /\ \E k \in 1..Segments, d \in 1..DotCount : radialScatter[k][d] # 0

\* Under the button, no start() ever waits for audioContext.resume(): a click
\* starts only while micActive is false, and then there is no audio context
\* that is suspended.
MicNeverResumes == awaitingResume = 0 /\ audioContext # "suspended"

\* C12 (as claimed): under every interleaving of clicks with the completions of
\* audio.start(), every stream acquired is the audio manager's mediaStream or
\* has had its tracks stopped; and while micActive is false and no start() is
\* in flight, no stream is live and there is no analyser.
C12_NoStreamLeaks ==
  /\ \A s \in 1..MaxStreams : streams[s] = "live" => mediaStream = s
  /\ (~micActive /\ awaitingGum + awaitingResume = 0) =>
       /\ \A s \in 1..MaxStreams : streams[s] # "live"
       /\ ~analyser
====
